---- MODULE Spec2Model ----
(***************************************************************************)
(* Model of Engine.generate (python/mlc_chat/serve/engine.py): the batch   *)
(* generation loop that takes over the engine's request stream callback,   *)
(* submits one request per prompt, drives Engine.step until the counted    *)
(* number of finished requests equals the batch size, and puts the         *)
(* original callback back.                                                 *)
(*                                                                         *)
(* The engine behind self._ffi is opaque: it is modelled as an environment *)
(* that, inside a step, invokes the installed callback with stream events  *)
(* of its choice, and that may raise from add_request or step.             *)
(*                                                                         *)
(* TextStreamer, StopStringHandler and Tokenizer live in ..streamer and    *)
(* ..tokenizer; their behaviour is taken from sections 4.1 and 4.2 of the  *)
(* specification.                                                          *)
(***************************************************************************)
EXTENDS Integers, Sequences, FiniteSets, TLC

\* ------------------------------------------------------------------ bounds
\* Largest batch the caller passes.
MaxRequests == 2
\* Most stream events the engine delivers during one call.
MaxEvents == 2
\* Most Engine.step calls of one call.
MaxSteps == 2

\* Calls of generate on one engine, one after or inside another.
MaxCalls == 3

\* ------------------------------------------------------------ vocabulary
\* Python's None.
None == "None"

\* Token ids of the tokenizer: 1 decodes to "a", 2 to "!", and 3 is one half
\* of a two-token unit: two 3s in a row decode to "b", a 3 that is not
\* followed by a 3 decodes to the replacement character "?".
Tokens == {1, 2, 3}

\* The token deltas an event can carry.
TokenDeltas == {<<>>, <<1>>, <<2>>}

\* Finish reasons the engine reports (None: the request goes on).
EngineFinishReasons == {None, "length"}

\* The stop string sets a GenerationConfig can carry.
StopStrSets == { {}, {<<"!">>, <<"a", "a">>} }

\* The callbacks the engine can hold when generate is called: nothing was
\* given to the constructor, or the user's callback.
InitialCallbacks == {None, "user_callback"}

\* The closure request_stream_callback defined inside generate.
BatchCallback == "request_stream_callback"

\* Every call of generate defines its own closure (line 278); the closures of
\* calls that run inside one another are different objects, told apart here
\* by the depth of the call.
RECURSIVE ClosureOf(_)
ClosureOf(depth) == IF depth = 0 THEN BatchCallback ELSE ClosureOf(depth - 1) \o "'"

\* ------------------------------------------------------- str() and int()
DigitChars == <<"0", "1", "2", "3", "4", "5", "6", "7", "8", "9">>

IsDigit(c) == \E d \in 1..10 : DigitChars[d] = c

DigitValue(c) == (CHOOSE d \in 1..10 : DigitChars[d] = c) - 1

\* str(n) for -9 <= n <= 9, as a sequence of characters.
Str(n) == IF n < 0 THEN <<"-", DigitChars[1 - n]>> ELSE <<DigitChars[n + 1]>>

RECURSIVE DigitsValue(_, _)
DigitsValue(s, acc) ==
    IF s = <<>> THEN acc ELSE DigitsValue(Tail(s), 10 * acc + DigitValue(Head(s)))

\* int(s): an optional sign followed by one or more digits; anything else
\* raises ValueError (ok = FALSE).
ParseInt(s) ==
    LET signed == s # <<>> /\ Head(s) \in {"-", "+"}
        digits == IF signed THEN Tail(s) ELSE s
        valid == digits # <<>> /\ \A k \in 1..Len(digits) : IsDigit(digits[k])
    IN  IF ~valid THEN [ok |-> FALSE, val |-> 0]
        ELSE [ok |-> TRUE,
              val |-> IF signed /\ Head(s) = "-" THEN 0 - DigitsValue(digits, 0)
                      ELSE DigitsValue(digits, 0)]

\* Python list indexing lst[i] on a list of length n: valid for -n <= i < n,
\* a negative index counts from the end; otherwise IndexError.
IndexInRange(i, n) == 0 - n <= i /\ i < n

\* The 1-based position that lst[i] reads.
ListPos(i, n) == IF i < 0 THEN i + n + 1 ELSE i + 1

\* The request id strings the engine can put on an event.
RequestIdStrs ==
    {Str(i) : i \in 0..MaxRequests} \cup {Str(-1), Str(0 - (MaxRequests + 1)), <<"x">>}

\* ------------------------------------------------------------- tokenizer
RECURSIVE Decode(_)
Decode(t) ==
    IF t = <<>> THEN <<>>
    ELSE IF Head(t) = 1 THEN <<"a">> \o Decode(Tail(t))
    ELSE IF Head(t) = 2 THEN <<"!">> \o Decode(Tail(t))
    ELSE IF Len(t) >= 2 /\ t[2] = 3 THEN <<"b">> \o Decode(Tail(Tail(t)))
    ELSE <<"?">> \o Decode(Tail(t))

\* How many trailing tokens a later token could still merge with.
RECURSIVE PendingLen(_)
PendingLen(t) ==
    IF t = <<>> THEN 0
    ELSE IF Head(t) # 3 THEN PendingLen(Tail(t))
    ELSE IF Len(t) = 1 THEN 1
    ELSE IF t[2] = 3 THEN PendingLen(Tail(Tail(t)))
    ELSE PendingLen(Tail(t))

\* ---------------------------------------------------------- TextStreamer
NewTextStreamer == [token_ids |-> <<>>, emitted |-> 0, finished |-> FALSE]

\* TextStreamer.put: the decoded text that no later token can change and
\* that was not returned before. A closed streamer faults.
TextStreamerPut(ts, delta_tokens) ==
    IF ts.finished THEN [fault |-> TRUE, state |-> ts, text |-> <<>>]
    ELSE LET all == ts.token_ids \o delta_tokens
             stable == Decode(SubSeq(all, 1, Len(all) - PendingLen(all)))
         IN  [fault |-> FALSE,
              state |-> [ts EXCEPT !.token_ids = all, !.emitted = Len(stable)],
              text |-> SubSeq(stable, ts.emitted + 1, Len(stable))]

\* TextStreamer.finish: flushes the withheld text and closes the streamer.
TextStreamerFinish(ts) ==
    IF ts.finished THEN [fault |-> TRUE, state |-> ts, text |-> <<>>]
    ELSE LET full == Decode(ts.token_ids)
         IN  [fault |-> FALSE,
              state |-> [ts EXCEPT !.emitted = Len(full), !.finished = TRUE],
              text |-> SubSeq(full, ts.emitted + 1, Len(full))]

\* ----------------------------------------------------- StopStringHandler
NewStopStringHandler(stop_strs) ==
    [stop_strs |-> stop_strs, buffer |-> <<>>, stop_triggered |-> FALSE,
     finished |-> FALSE]

\* s occurs in text starting at 0-based offset k.
OccursAt(text, s, k) == k + Len(s) <= Len(text) /\ SubSeq(text, k + 1, k + Len(s)) = s

\* The 0-based offsets at which some stop string occurs in text.
StopOffsets(text, stop_strs) ==
    {k \in 0..Len(text) : \E s \in stop_strs : OccursAt(text, s, k)}

Min(S) == CHOOSE x \in S : \A y \in S : x <= y

Max(S) == CHOOSE x \in S : \A y \in S : x >= y

\* The length of the longest suffix of text that is a proper prefix of some
\* stop string.
PartialMatchLen(text, stop_strs) ==
    Max({0} \cup {n \in 1..Len(text) :
            \E s \in stop_strs :
                n < Len(s) /\ SubSeq(text, Len(text) - n + 1, Len(text)) = SubSeq(s, 1, n)})

\* StopStringHandler.put
StopStringHandlerPut(sh, text) ==
    IF sh.stop_triggered THEN [state |-> sh, text |-> <<>>]
    ELSE LET buf == sh.buffer \o text
             offs == StopOffsets(buf, sh.stop_strs)
         IN  IF offs # {}
             THEN [state |-> [sh EXCEPT !.buffer = <<>>, !.stop_triggered = TRUE],
                   text |-> SubSeq(buf, 1, Min(offs))]
             ELSE LET keep == PartialMatchLen(buf, sh.stop_strs)
                  IN  [state |-> [sh EXCEPT !.buffer = SubSeq(buf, Len(buf) - keep + 1, Len(buf))],
                       text |-> SubSeq(buf, 1, Len(buf) - keep)]

\* StopStringHandler.finish: a second finish faults.
StopStringHandlerFinish(sh) ==
    IF sh.finished THEN [fault |-> TRUE, state |-> sh, text |-> <<>>]
    ELSE [fault |-> FALSE,
          state |-> [sh EXCEPT !.buffer = <<>>, !.finished = TRUE],
          text |-> IF sh.stop_triggered THEN <<>> ELSE sh.buffer]

\* ------------------------------------------------ arguments of generate
RECURSIVE SeqsOfLen(_, _)
SeqsOfLen(S, n) ==
    IF n = 0 THEN {<<>>}
    ELSE {Append(q, x) : q \in SeqsOfLen(S, n - 1), x \in S}

Repeat(x, n) == [k \in 1..n |-> x]

\* A list of n prompts whose last one is a list of token ids and whose other
\* ones are strings, so that the prompts of one batch differ.
PromptList(n) == [k \in 1..n |-> IF k = n THEN "ids" ELSE "str"]

\* The values of the parameter `prompts`: a string, a list of prompts (strings
\* and token id lists), one list of token ids, and a value that is neither a
\* string nor a list.
PromptArgs ==
    {[type |-> "str", elems |-> <<>>], [type |-> "other", elems |-> <<>>],
     [type |-> "list", elems |-> <<"int", "int">>]}
    \cup {[type |-> "list", elems |-> PromptList(n)] : n \in 0..MaxRequests}

\* The values of the parameter `generation_config`: one GenerationConfig, or
\* a list of them (a config is modelled by its stop_strs).
ConfigArgs ==
    {[is_list |-> FALSE, cfgs |-> <<s>>] : s \in StopStrSets}
    \cup {[is_list |-> TRUE, cfgs |-> c] :
            c \in UNION {SeqsOfLen(StopStrSets, n) : n \in 0..(MaxRequests + 1)}}

\* The stream events (RequestStreamOutput) the engine can deliver.
StreamEvents ==
    [request_id : RequestIdStrs, delta_tokens : TokenDeltas,
     finish_reason : EngineFinishReasons]

NoEvent == [request_id |-> <<>>, delta_tokens |-> <<>>, finish_reason |-> None]

\* ----------------------------------------------------------------- state
VARIABLES
    pc,                     \* where generate stands
    fault,                  \* the exception generate exited with, or None
    callback_slot,          \* the engine's request stream callback
    entry_callback,         \* the callback in the slot when generate was called
    original_callback,      \* generate's local of that name
    prompts,                \* generate's local `prompts`
    generation_config,      \* generate's local `generation_config`
    num_requests,
    num_finished_requests,
    outputs,
    text_streamers,
    stop_handlers,
    finish_reasons,         \* per request, `finish_reason` at line 297 of its last event
    req_id,                 \* the index of the add_request loop
    ffi_calls,              \* the calls made on self._ffi, in order
    delta_output,           \* the event the callback processed last
    num_events,             \* events delivered so far
    by_id,                  \* per id i, the streamer, handler and text fed by the events whose id reads as i
    result,                 \* what generate returned
    config_arg,             \* the argument `generation_config` as it was passed
    call_stack,             \* the locals of the calls of generate that wait inside step
    num_calls,              \* calls of generate made so far
    installed_callback      \* the callback in the slot before the first call

vars ==
    <<pc, fault, callback_slot, entry_callback, original_callback, prompts,
      generation_config, num_requests, num_finished_requests, outputs,
      text_streamers, stop_handlers, finish_reasons, req_id, ffi_calls,
      delta_output, num_events, by_id, result, config_arg, call_stack, num_calls,
      installed_callback>>

call_vars == <<call_stack, num_calls, installed_callback>>

closure_vars ==
    <<num_finished_requests, outputs, text_streamers, stop_handlers, finish_reasons>>

\* The closure of the call of generate that runs now.
CurrentCallback == ClosureOf(Len(call_stack))

\* Line 275. The mutant reads no callback.
GetNoCallback == None

GetRequestStreamCallback == callback_slot

Init ==
    /\ pc = "idle"
    /\ fault = None
    /\ callback_slot \in InitialCallbacks
    /\ entry_callback = callback_slot
    /\ original_callback = None
    /\ prompts = [type |-> "list", elems |-> <<>>]
    /\ generation_config = [is_list |-> TRUE, cfgs |-> <<>>]
    /\ num_requests = 0
    /\ num_finished_requests = 0
    /\ outputs = <<>>
    /\ text_streamers = <<>>
    /\ stop_handlers = <<>>
    /\ finish_reasons = <<>>
    /\ req_id = 0
    /\ ffi_calls = <<>>
    /\ delta_output = NoEvent
    /\ num_events = 0
    /\ by_id = <<>>
    /\ result = None
    /\ config_arg = generation_config
    /\ call_stack = <<>>
    /\ num_calls = 0
    /\ installed_callback = callback_slot

\* ----------------------------------------------- request_stream_callback
\* Lines 287-288 and 291-292: a triggered stop string overrides the engine's
\* finish reason. The mutant leaves the engine's reason in place.
FinishReasonKept(stop_triggered, finish_reason) == finish_reason

FinishReasonAfter(stop_triggered, finish_reason) ==
    IF stop_triggered THEN "stop" ELSE finish_reason

\* Lines 286 and 290: the text goes through stop_handler.put. The mutant
\* feeds the handler and hands on the unfiltered text.
PutAround(sh, text) ==
    [state |-> StopStringHandlerPut(sh, text).state, text |-> text]

PutThrough(sh, text) == StopStringHandlerPut(sh, text)

\* Line 296: outputs[rid] += delta_text. The mutant assigns instead.
ReplaceOutput(output, delta_text) == delta_text

AppendOutput(output, delta_text) == output \o delta_text

\* The mutant of ProcessDelta: the tests of lines 287 and 289 in the other
\* order, so that a terminal event is flushed even if its put triggered.
ProcessDeltaFlushFirst(ts, sh, delta_tokens, finish_reason) ==
    LET r1 == TextStreamerPut(ts, delta_tokens)
        m1 == PutThrough(sh, r1.text)
        r2 == TextStreamerFinish(r1.state)
        m2 == PutThrough(m1.state, r2.text)
        m3 == StopStringHandlerFinish(m2.state)
    IN  IF r1.fault
        THEN [fault |-> TRUE, ts |-> ts, sh |-> sh, delta_text |-> <<>>,
              finish_reason |-> finish_reason]
        ELSE IF finish_reason = None
        THEN [fault |-> FALSE, ts |-> r1.state, sh |-> m1.state,
              delta_text |-> m1.text,
              finish_reason |-> FinishReasonAfter(m1.state.stop_triggered, finish_reason)]
        ELSE IF r2.fault \/ m3.fault
        THEN [fault |-> TRUE, ts |-> r1.state, sh |-> m1.state, delta_text |-> <<>>,
              finish_reason |-> finish_reason]
        ELSE [fault |-> FALSE, ts |-> r2.state, sh |-> m3.state,
              delta_text |-> m1.text \o m2.text \o m3.text,
              finish_reason |-> FinishReasonAfter(m3.state.stop_triggered, finish_reason)]

\* Lines 286-294 for one event on the streamer ts and handler sh of its
\* request: the text to append and the finish reason the callback ends with.
ProcessDelta(ts, sh, delta_tokens, finish_reason) ==
    LET r1 == TextStreamerPut(ts, delta_tokens)
        m1 == PutThrough(sh, r1.text)
        r2 == TextStreamerFinish(r1.state)
        m2 == PutThrough(m1.state, r2.text)
        m3 == StopStringHandlerFinish(m2.state)
    IN  IF r1.fault
        THEN [fault |-> TRUE, ts |-> ts, sh |-> sh, delta_text |-> <<>>,
              finish_reason |-> finish_reason]
        ELSE IF m1.state.stop_triggered
        THEN [fault |-> FALSE, ts |-> r1.state, sh |-> m1.state,
              delta_text |-> m1.text,
              finish_reason |-> FinishReasonAfter(TRUE, finish_reason)]
        ELSE IF finish_reason = None
        THEN [fault |-> FALSE, ts |-> r1.state, sh |-> m1.state,
              delta_text |-> m1.text, finish_reason |-> None]
        ELSE IF r2.fault
        THEN [fault |-> TRUE, ts |-> r1.state, sh |-> m1.state, delta_text |-> <<>>,
              finish_reason |-> finish_reason]
        ELSE IF m2.state.stop_triggered
        THEN [fault |-> FALSE, ts |-> r2.state, sh |-> m2.state,
              delta_text |-> m1.text \o m2.text,
              finish_reason |-> FinishReasonAfter(TRUE, finish_reason)]
        ELSE IF m3.fault
        THEN [fault |-> TRUE, ts |-> r2.state, sh |-> m2.state, delta_text |-> <<>>,
              finish_reason |-> finish_reason]
        ELSE [fault |-> FALSE, ts |-> r2.state, sh |-> m3.state,
              delta_text |-> m1.text \o m2.text \o m3.text,
              finish_reason |-> FinishReasonAfter(FALSE, finish_reason)]

\* Lines 281-284: the list position the event's request id selects, 0 when
\* int() or the list index raises.
RoutedPos(request_id, n) ==
    LET rid == ParseInt(request_id)
    IN  IF rid.ok /\ IndexInRange(rid.val, n) THEN ListPos(rid.val, n) ELSE 0

\* One iteration of the loop of request_stream_callback (lines 280-298) on
\* the closure variables cl, for the event ev.
RequestStreamCallback(cl, ev) ==
    LET rid == ParseInt(ev.request_id)
        pos == RoutedPos(ev.request_id, Len(cl.outputs))
        d == ProcessDelta(cl.text_streamers[pos], cl.stop_handlers[pos],
                          ev.delta_tokens, ev.finish_reason)
    IN  IF ~rid.ok THEN [cl EXCEPT !.fault = "ValueError"]
        ELSE IF pos = 0 THEN [cl EXCEPT !.fault = "IndexError"]
        ELSE IF d.fault
        THEN [cl EXCEPT !.fault = "StreamError",
                        !.text_streamers[pos] = d.ts,
                        !.stop_handlers[pos] = d.sh]
        ELSE [cl EXCEPT !.text_streamers[pos] = d.ts,
                        !.stop_handlers[pos] = d.sh,
                        !.outputs[pos] = AppendOutput(@, d.delta_text),
                        !.finish_reasons[pos] = d.finish_reason,
                        !.num_finished_requests =
                            IF d.finish_reason # None THEN @ + 1 ELSE @]

\* The closure variables of the callback, as one record.
Closure ==
    [fault |-> None, text_streamers |-> text_streamers, stop_handlers |-> stop_handlers,
     outputs |-> outputs, finish_reasons |-> finish_reasons,
     num_finished_requests |-> num_finished_requests]

\* What the events whose id reads as i make of request i on its own, and
\* whether one of them carried a finish reason.
ById(b, ev) ==
    LET rid == ParseInt(ev.request_id)
        pos == rid.val + 1
        d == ProcessDelta(b[pos].ts, b[pos].sh, ev.delta_tokens, ev.finish_reason)
        terminal == b[pos].terminal \/ ev.finish_reason # None
    IN  IF ~rid.ok \/ rid.val < 0 \/ rid.val >= Len(b) THEN b
        ELSE IF d.fault THEN [b EXCEPT ![pos].terminal = terminal]
        ELSE [b EXCEPT ![pos] = [ts |-> d.ts, sh |-> d.sh,
                                 text |-> b[pos].text \o d.delta_text,
                                 terminal |-> terminal]]

\* ---------------------------------------------------------------- generate
\* Lines 241-253: `prompts` as a list of prompts.
NormalizedPrompts(p) ==
    IF p.type = "str" THEN [type |-> "list", elems |-> <<"str">>]
    ELSE IF p.elems # <<>> /\ Head(p.elems) = "int"
    THEN [type |-> "list", elems |-> <<"ids">>]
    ELSE p

\* Lines 256-257: one config is shared by all prompts.
NormalizedConfig(g, n) ==
    IF g.is_list THEN g ELSE [is_list |-> TRUE, cfgs |-> Repeat(g.cfgs[1], n)]

\* Line 249. The mutant has no early return for an empty list.
NeverEmptyPromptList(p) == FALSE

IsEmptyPromptList(p) == p.type = "list" /\ p.elems = <<>>

\* Lines 259-261. The mutant only asks for enough configs.
EnoughConfigs(cfgs, n) == Len(cfgs) >= n

ConfigCountMatches(cfgs, n) == Len(cfgs) = n

\* Lines 241-275: the argument checks, the per-request state and the read of
\* the engine's callback.
Generate(p, g) ==
    /\ pc = "idle"
    /\ IF p.type = "other"
       THEN \* the assertion of line 245
            /\ pc' = "raised"
            /\ fault' = "AssertionError"
            /\ prompts' = p
            /\ generation_config' = g
            /\ UNCHANGED <<num_requests, outputs, text_streamers, stop_handlers,
                           finish_reasons, by_id, original_callback, ffi_calls, result>>
       ELSE IF IsEmptyPromptList(p)
       THEN \* line 250
            /\ pc' = "returned"
            /\ result' = <<>>
            /\ prompts' = p
            /\ generation_config' = g
            /\ UNCHANGED <<fault, num_requests, outputs, text_streamers, stop_handlers,
                           finish_reasons, by_id, original_callback, ffi_calls>>
       ELSE LET ps == NormalizedPrompts(p)
                n == Len(ps.elems)
                gc == NormalizedConfig(g, n)
            IN  /\ prompts' = ps
                /\ generation_config' = gc
                /\ num_requests' = n
                /\ IF ~ConfigCountMatches(gc.cfgs, n)
                   THEN \* the assertion of line 259
                        /\ pc' = "raised"
                        /\ fault' = "AssertionError"
                        /\ UNCHANGED <<outputs, text_streamers, stop_handlers,
                                       finish_reasons, by_id, original_callback,
                                       ffi_calls, result>>
                   ELSE /\ pc' = "set_callback"
                        /\ outputs' = Repeat(<<>>, n)
                        /\ text_streamers' = Repeat(NewTextStreamer, n)
                        /\ stop_handlers' = [i \in 1..n |-> NewStopStringHandler(gc.cfgs[i])]
                        /\ finish_reasons' = Repeat(None, n)
                        /\ by_id' = [i \in 1..n |->
                                        [ts |-> NewTextStreamer,
                                         sh |-> NewStopStringHandler(gc.cfgs[i]),
                                         text |-> <<>>, terminal |-> FALSE]]
                        /\ original_callback' = GetRequestStreamCallback
                        /\ ffi_calls' = Append(ffi_calls, [op |-> "get_request_stream_callback"])
                        /\ UNCHANGED <<fault, result>>
    /\ config_arg' = g
    /\ num_calls' = num_calls + 1
    /\ UNCHANGED <<callback_slot, entry_callback, num_finished_requests, req_id,
                   delta_output, num_events, call_stack, installed_callback>>

\* Line 301.
OverrideCallback ==
    /\ pc = "set_callback"
    /\ callback_slot' = CurrentCallback
    /\ ffi_calls' = Append(ffi_calls, [op |-> "set_request_stream_callback",
                                       callback |-> CurrentCallback])
    /\ req_id' = 0
    /\ pc' = "add_requests"
    /\ UNCHANGED <<fault, entry_callback, original_callback, prompts, generation_config,
                   num_requests, closure_vars, delta_output, num_events, by_id, result>>
    /\ UNCHANGED <<config_arg, call_vars>>

\* The mutant of RequestOf: every request gets the first config.
RequestWithFirstConfig(i) ==
    [op |-> "add_request",
     request_id |-> Str(i),
     inputs |-> IF prompts.elems[i + 1] = "str" THEN "TextData" ELSE "TokenData",
     generation_config |-> generation_config.cfgs[1]]

\* The Request built at lines 305-316 for the loop index i.
RequestOf(i) ==
    [op |-> "add_request",
     request_id |-> Str(i),
     inputs |-> IF prompts.elems[i + 1] = "str" THEN "TextData" ELSE "TokenData",
     generation_config |-> generation_config.cfgs[i + 1]]

\* Lines 304-316, one iteration: the engine accepts the request.
AddRequest ==
    /\ pc = "add_requests"
    /\ req_id < num_requests
    /\ ffi_calls' = Append(ffi_calls, RequestOf(req_id))
    /\ req_id' = req_id + 1
    /\ UNCHANGED <<pc, fault, callback_slot, entry_callback, original_callback, prompts,
                   generation_config, num_requests, closure_vars, delta_output,
                   num_events, by_id, result>>
    /\ UNCHANGED <<config_arg, call_vars>>

\* Lines 304-316, one iteration: the engine raises from add_request.
AddRequestRaises ==
    /\ pc = "add_requests"
    /\ req_id < num_requests
    /\ ffi_calls' = Append(ffi_calls, RequestOf(req_id))
    /\ pc' = "raised"
    /\ fault' = "EngineError"
    /\ UNCHANGED <<callback_slot, entry_callback, original_callback, prompts,
                   generation_config, num_requests, closure_vars, req_id, delta_output,
                   num_events, by_id, result>>
    /\ UNCHANGED <<config_arg, call_vars>>

\* The mutant of AddRequestsDone: the loop of line 304 may end after its
\* first iteration.
AddRequestsDoneEarly ==
    /\ pc = "add_requests"
    /\ req_id >= 1
    /\ pc' = "loop"
    /\ UNCHANGED <<fault, callback_slot, entry_callback, original_callback, prompts,
                   generation_config, num_requests, closure_vars, req_id, ffi_calls,
                   delta_output, num_events, by_id, result>>
    /\ UNCHANGED <<config_arg, call_vars>>

\* The end of the loop of line 304.
AddRequestsDone ==
    /\ pc = "add_requests"
    /\ req_id = num_requests
    /\ pc' = "loop"
    /\ UNCHANGED <<fault, callback_slot, entry_callback, original_callback, prompts,
                   generation_config, num_requests, closure_vars, req_id, ffi_calls,
                   delta_output, num_events, by_id, result>>
    /\ UNCHANGED <<config_arg, call_vars>>

NumSteps == Cardinality({k \in 1..Len(ffi_calls) : ffi_calls[k].op = "step"})

\* Lines 318-319: the loop condition holds and step is entered.
StepCall ==
    /\ pc = "loop"
    /\ num_finished_requests # num_requests
    /\ NumSteps < MaxSteps
    /\ ffi_calls' = Append(ffi_calls, [op |-> "step"])
    /\ pc' = "in_step"
    /\ UNCHANGED <<fault, callback_slot, entry_callback, original_callback, prompts,
                   generation_config, num_requests, closure_vars, req_id, delta_output,
                   num_events, by_id, result>>
    /\ UNCHANGED <<config_arg, call_vars>>

\* Inside step the engine hands one more event to the installed callback
\* (lines 280-298 for that event). A callback invocation with a list of k
\* events is k of these in a row: the loop of line 280 keeps nothing between
\* its iterations but the closure variables, and an exception ends it.
Deliver(ev) ==
    /\ pc = "in_step"
    /\ callback_slot = CurrentCallback
    /\ num_events < MaxEvents
    /\ LET cl == RequestStreamCallback(Closure, ev)
       IN  /\ text_streamers' = cl.text_streamers
           /\ stop_handlers' = cl.stop_handlers
           /\ outputs' = cl.outputs
           /\ finish_reasons' = cl.finish_reasons
           /\ num_finished_requests' = cl.num_finished_requests
           /\ fault' = cl.fault
           /\ pc' = IF cl.fault = None THEN "in_step" ELSE "raised"
    /\ by_id' = ById(by_id, ev)
    /\ delta_output' = ev
    /\ num_events' = num_events + 1
    /\ UNCHANGED <<callback_slot, entry_callback, original_callback, prompts,
                   generation_config, num_requests, req_id, ffi_calls, result>>
    /\ UNCHANGED <<config_arg, call_vars>>

\* step returns to the loop of line 318.
StepReturns ==
    /\ pc = "in_step"
    /\ pc' = "loop"
    /\ UNCHANGED <<fault, callback_slot, entry_callback, original_callback, prompts,
                   generation_config, num_requests, closure_vars, req_id, ffi_calls,
                   delta_output, num_events, by_id, result>>
    /\ UNCHANGED <<config_arg, call_vars>>

\* The engine raises from step.
StepRaises ==
    /\ pc = "in_step"
    /\ pc' = "raised"
    /\ fault' = "EngineError"
    /\ UNCHANGED <<callback_slot, entry_callback, original_callback, prompts,
                   generation_config, num_requests, closure_vars, req_id, ffi_calls,
                   delta_output, num_events, by_id, result>>
    /\ UNCHANGED <<config_arg, call_vars>>

\* The mutant of Return: the loop ends and the batch callback stays installed.
ReturnWithoutRestore ==
    /\ pc = "loop"
    /\ num_finished_requests = num_requests
    /\ result' = outputs
    /\ pc' = "returned"
    /\ UNCHANGED <<fault, callback_slot, entry_callback, original_callback, prompts,
                   generation_config, num_requests, closure_vars, req_id, ffi_calls,
                   delta_output, num_events, by_id>>
    /\ UNCHANGED <<config_arg, call_vars>>

\* Lines 318 and 321-323: the loop ends, the callback is put back and the
\* outputs are returned.
Return ==
    /\ pc = "loop"
    /\ num_finished_requests = num_requests
    /\ callback_slot' = original_callback
    /\ ffi_calls' = Append(ffi_calls, [op |-> "set_request_stream_callback",
                                       callback |-> original_callback])
    /\ result' = outputs
    /\ pc' = "returned"
    /\ UNCHANGED <<fault, entry_callback, original_callback, prompts, generation_config,
                   num_requests, closure_vars, req_id, delta_output, num_events, by_id>>
    /\ UNCHANGED <<config_arg, call_vars>>

Next ==
    \/ \E p \in PromptArgs, g \in ConfigArgs : Generate(p, g)
    \/ OverrideCallback
    \/ AddRequest
    \/ AddRequestRaises
    \/ AddRequestsDone
    \/ StepCall
    \/ \E ev \in StreamEvents : Deliver(ev)
    \/ StepReturns
    \/ StepRaises
    \/ Return

Spec == Init /\ [][Next]_vars

\* One request and a wider choice of token deltas and stop strings: the same
\* operations, called with one string prompt and with events of request "0"
\* that carry up to two tokens.
StreamTokenDeltas ==
    SeqsOfLen(Tokens, 0) \cup SeqsOfLen(Tokens, 1) \cup SeqsOfLen(Tokens, 2)

StreamStopStrSets ==
    StopStrSets \cup { {<<"a", "!">>}, {<<"!">>, <<"a", "?">>}, {<<"b">>},
                       {<<"?">>, <<"!", "a">>}, {<<"a", "b">>, <<"b">>} }

StreamEventsOfOne ==
    [request_id : {Str(0)}, delta_tokens : StreamTokenDeltas,
     finish_reason : EngineFinishReasons]

NextStream ==
    \/ \E s \in StreamStopStrSets :
           Generate([type |-> "str", elems |-> <<>>], [is_list |-> FALSE, cfgs |-> <<s>>])
    \/ OverrideCallback
    \/ AddRequest
    \/ AddRequestRaises
    \/ AddRequestsDone
    \/ StepCall
    \/ \E ev \in StreamEventsOfOne : Deliver(ev)
    \/ StepReturns
    \/ StepRaises
    \/ Return

SpecStream == Init /\ [][NextStream]_vars

\* ------------------------------------------- calls after and inside calls
\* The locals of the running call, kept while a call made inside its step
\* runs.
Frame ==
    [entry_callback |-> entry_callback, original_callback |-> original_callback,
     prompts |-> prompts, generation_config |-> generation_config,
     config_arg |-> config_arg, num_requests |-> num_requests,
     num_finished_requests |-> num_finished_requests, outputs |-> outputs,
     text_streamers |-> text_streamers, stop_handlers |-> stop_handlers,
     finish_reasons |-> finish_reasons, req_id |-> req_id, ffi_calls |-> ffi_calls,
     delta_output |-> delta_output, num_events |-> num_events, by_id |-> by_id]

\* A new call starts with fresh locals, as in Init.
FreshLocals ==
    /\ fault' = None
    /\ original_callback' = None
    /\ prompts' = [type |-> "list", elems |-> <<>>]
    /\ generation_config' = [is_list |-> TRUE, cfgs |-> <<>>]
    /\ config_arg' = [is_list |-> TRUE, cfgs |-> <<>>]
    /\ num_requests' = 0
    /\ num_finished_requests' = 0
    /\ outputs' = <<>>
    /\ text_streamers' = <<>>
    /\ stop_handlers' = <<>>
    /\ finish_reasons' = <<>>
    /\ req_id' = 0
    /\ ffi_calls' = <<>>
    /\ delta_output' = NoEvent
    /\ num_events' = 0
    /\ by_id' = <<>>
    /\ result' = None

\* The waiting call goes on with the locals it had.
ResumeLocals(f) ==
    /\ entry_callback' = f.entry_callback
    /\ original_callback' = f.original_callback
    /\ prompts' = f.prompts
    /\ generation_config' = f.generation_config
    /\ config_arg' = f.config_arg
    /\ num_requests' = f.num_requests
    /\ num_finished_requests' = f.num_finished_requests
    /\ outputs' = f.outputs
    /\ text_streamers' = f.text_streamers
    /\ stop_handlers' = f.stop_handlers
    /\ finish_reasons' = f.finish_reasons
    /\ req_id' = f.req_id
    /\ ffi_calls' = f.ffi_calls
    /\ delta_output' = f.delta_output
    /\ num_events' = f.num_events
    /\ by_id' = f.by_id
    /\ result' = None

\* generate is called again after a call returned (line 323).
NextCall ==
    /\ pc = "returned"
    /\ call_stack = <<>>
    /\ num_calls < MaxCalls
    /\ pc' = "idle"
    /\ entry_callback' = callback_slot
    /\ FreshLocals
    /\ UNCHANGED <<callback_slot, call_vars>>

\* generate is called while step runs (line 319) in another call, which
\* waits until the new call is over.
NestedCall ==
    /\ pc = "in_step"
    /\ num_calls < MaxCalls
    /\ call_stack' = Append(call_stack, Frame)
    /\ pc' = "idle"
    /\ entry_callback' = callback_slot
    /\ FreshLocals
    /\ UNCHANGED <<callback_slot, num_calls, installed_callback>>

\* The call made inside step returned (line 323); step goes on.
NestedReturn ==
    /\ pc = "returned"
    /\ call_stack # <<>>
    /\ ResumeLocals(call_stack[Len(call_stack)])
    /\ call_stack' = SubSeq(call_stack, 1, Len(call_stack) - 1)
    /\ pc' = "in_step"
    /\ fault' = None
    /\ UNCHANGED <<callback_slot, num_calls, installed_callback>>

\* The call made inside step faulted; the exception leaves step (line 319)
\* and the waiting call with it.
NestedRaise ==
    /\ pc = "raised"
    /\ call_stack # <<>>
    /\ ResumeLocals(call_stack[Len(call_stack)])
    /\ call_stack' = SubSeq(call_stack, 1, Len(call_stack) - 1)
    /\ UNCHANGED <<pc, fault, callback_slot, num_calls, installed_callback>>

\* The events of the one request of a call.
NestedEvents ==
    [request_id : {Str(0)}, delta_tokens : {<<>>}, finish_reason : EngineFinishReasons]

NextNested ==
    \/ Generate([type |-> "str", elems |-> <<>>], [is_list |-> FALSE, cfgs |-> <<{}>>])
    \/ OverrideCallback
    \/ AddRequest
    \/ AddRequestRaises
    \/ AddRequestsDone
    \/ StepCall
    \/ \E ev \in NestedEvents : Deliver(ev)
    \/ StepReturns
    \/ StepRaises
    \/ Return
    \/ NextCall
    \/ NestedCall
    \/ NestedReturn
    \/ NestedRaise

SpecNested == Init /\ [][NextNested]_vars

\* ---------------------------------------------------------------- claims
\* The prompts of the call are the empty list.
EmptyPromptList == prompts = [type |-> "list", elems |-> <<>>]

\* Request i (1-based) is Done: its stop string triggered, or it was flushed
\* on a terminal event.
Done(i) == stop_handlers[i].stop_triggered \/ text_streamers[i].finished

\* The batch callback was installed during this call.
CallbackInstalled ==
    \E k \in 1..Len(ffi_calls) :
        /\ ffi_calls[k].op = "set_request_stream_callback"
        /\ ffi_calls[k].callback = BatchCallback

\* The step just taken handed an event to the callback.
Delivered == num_events' = num_events + 1

\* C1: when generate returns normally, the engine's callback slot holds the
\* callback it held when generate was called.
C1_CallbackRestoredOnReturn ==
    pc = "returned" => callback_slot = entry_callback

C1_Witness ==
    /\ pc = "returned"
    /\ num_requests = MaxRequests
    /\ num_events >= 2
    /\ CallbackInstalled
    /\ callback_slot = "user_callback"

\* C2: when generate exits with a fault raised after the batch callback was
\* installed, the callback slot holds the callback it held at the call.
C2_CallbackRestoredOnFault ==
    (pc = "raised" /\ CallbackInstalled) => callback_slot = entry_callback

\* C3: num_finished_requests never decreases, never exceeds the batch size,
\* and the loop goes on exactly while it differs from the batch size.
C3_FinishedCountAccounting ==
    [][/\ num_finished_requests' >= num_finished_requests
       /\ num_finished_requests' <= num_requests'
       /\ (pc = "loop" /\ pc' = "returned") => num_finished_requests = num_requests
       /\ (pc = "loop" /\ pc' = "in_step") => num_finished_requests # num_requests]_vars

\* C4: when generate returns normally every submitted request is Done.
C4_AllDoneOnReturn ==
    pc = "returned" => \A i \in 1..num_requests : Done(i)

\* C5: an event for a request that is already Done makes the callback fault
\* and changes neither the outputs nor the finished count.
C5_EventForDoneRequestFaults ==
    [][(/\ Delivered
        /\ RoutedPos(delta_output'.request_id, num_requests) # 0
        /\ Done(RoutedPos(delta_output'.request_id, num_requests)))
       => (/\ pc' = "raised"
           /\ outputs' = outputs
           /\ num_finished_requests' = num_finished_requests)]_vars

\* C6: an event whose request id reads as an integer outside 0..N-1 makes the
\* callback fault and changes no streamer, handler, output or the count.
C6_OutOfRangeIdRejected ==
    [][(/\ Delivered
        /\ ParseInt(delta_output'.request_id).ok
        /\ ParseInt(delta_output'.request_id).val \notin 0..(num_requests - 1))
       => (/\ pc' = "raised"
           /\ UNCHANGED closure_vars)]_vars

\* The config list and the prompt list of the call differ in length.
ConfigCountMismatch ==
    /\ pc # "idle"
    /\ prompts.type = "list"
    /\ generation_config.is_list
    /\ Len(generation_config.cfgs) # Len(prompts.elems)

\* C7 as stated: whenever the config list and the prompts differ in number,
\* the empty prompt list included, generate faults without any engine call.
C7_MismatchAlwaysFaults ==
    ConfigCountMismatch => (pc = "raised" /\ ffi_calls = <<>>)

\* C7, amended: with at least one prompt a config list of another length makes
\* generate fault without any engine call; with an empty prompt list generate
\* returns the empty list, also without any engine call.
C7_MismatchFaultsUnlessEmpty ==
    ConfigCountMismatch =>
        /\ ffi_calls = <<>>
        /\ IF prompts.elems = <<>>
           THEN pc = "returned" /\ result = <<>> /\ fault = None
           ELSE pc = "raised" /\ fault = "AssertionError"

C7_Witness ==
    /\ ConfigCountMismatch
    /\ Len(prompts.elems) = MaxRequests
    /\ Len(generation_config.cfgs) = MaxRequests + 1
    /\ pc = "raised"

\* C8: given an empty prompt list generate returns the empty list and makes
\* no call on the engine, so the callback slot is as it was.
C8_EmptyPromptsNoEngine ==
    (pc # "idle" /\ EmptyPromptList) =>
        /\ pc = "returned"
        /\ result = <<>>
        /\ ffi_calls = <<>>
        /\ callback_slot = entry_callback

C8_Witness ==
    /\ pc = "returned"
    /\ EmptyPromptList
    /\ generation_config.is_list
    /\ generation_config.cfgs # <<>>
    /\ result = <<>>

\* C9: the returned list has one entry per prompt, and entry i is the text
\* accumulated from exactly the events whose request id is i, in order.
C9_ResultByRequestId ==
    (pc = "returned" /\ ~EmptyPromptList) =>
        /\ Len(result) = num_requests
        /\ \A i \in 1..num_requests : result[i] = by_id[i].text

C11_PassThroughWithoutStopStrs ==
    \A i \in 1..Len(outputs) :
        LET ts == text_streamers[i]
            all == Decode(ts.token_ids)
        IN  stop_handlers[i].stop_strs = {} =>
                /\ ~stop_handlers[i].stop_triggered
                /\ outputs[i] = SubSeq(all, 1, ts.emitted)
                /\ IF ts.finished
                   THEN /\ outputs[i] = all
                        /\ finish_reasons[i] \in EngineFinishReasons \ {None}
                        /\ (pc # "raised" /\ RoutedPos(delta_output.request_id, Len(outputs)) = i)
                              => finish_reasons[i] = delta_output.finish_reason
                   ELSE finish_reasons[i] = None

\* Text came out of put on an earlier event and out of finish on the terminal
\* event, whose flush held the replacement character of a lone half token.
C11_Witness ==
    /\ Len(outputs) = 1
    /\ stop_handlers[1].stop_strs = {}
    /\ text_streamers[1].finished
    /\ num_events = 2
    /\ outputs[1] = <<"a", "?">>
    /\ finish_reasons[1] = "length"

\* C12: the output of a request that is Done never changes again.
C12_OutputFrozenOnceDone ==
    [][\A i \in 1..Len(outputs) :
          Done(i) => (Len(outputs') = Len(outputs) /\ outputs'[i] = outputs[i])]_vars

\* A request whose stop string triggered, with text out, got one more event
\* with a token and no fault came of it.
C12_Witness ==
    \E i \in 1..Len(outputs) :
        /\ stop_handlers[i].stop_triggered
        /\ outputs[i] # <<>>
        /\ num_events = 2
        /\ delta_output.delta_tokens # <<>>
        /\ Len(text_streamers[i].token_ids) = 3
        /\ pc = "in_step"

\* C13: once the engine has delivered an event with a finish reason for every
\* request, generate returns: the loop test that follows finds the count
\* equal to the batch size.
C13_ReturnsOnceAllTerminal ==
    (/\ pc = "loop"
     /\ num_requests >= 1
     /\ \A i \in 1..num_requests : by_id[i].terminal)
    => num_finished_requests = num_requests

\* C14: an event for a Streaming request goes through TextStreamer.put and
\* StopStringHandler.put; a trigger there ends the request with "stop" and
\* without any finish call; else a finish reason flushes the streamer and
\* finishes the handler only if the flush did not trigger, keeping the
\* engine's reason; else the request stays Streaming. An event for a streamer
\* that was not flushed never faults in the streamer or the handler.
C14_EventTransition ==
    [][LET pos == RoutedPos(delta_output'.request_id, num_requests)
           ev == delta_output'
           ts == text_streamers[pos]
           sh == stop_handlers[pos]
           ts2 == text_streamers'[pos]
           sh2 == stop_handlers'[pos]
           put == TextStreamerPut(ts, ev.delta_tokens)
           counted == num_finished_requests' = num_finished_requests + 1
       IN  (Delivered /\ pos # 0 /\ ~ts.finished) =>
             /\ fault' = None
             /\ ~Done(pos) =>
                  /\ ts2.token_ids = ts.token_ids \o ev.delta_tokens
                  /\ IF StopOffsets(sh.buffer \o put.text, sh.stop_strs) # {}
                     THEN /\ sh2.stop_triggered /\ ~ts2.finished /\ ~sh2.finished
                          /\ finish_reasons'[pos] = "stop" /\ counted
                     ELSE IF ev.finish_reason # None
                     THEN /\ ts2.finished /\ counted
                          /\ IF sh2.stop_triggered
                             THEN ~sh2.finished /\ finish_reasons'[pos] = "stop"
                             ELSE sh2.finished /\ finish_reasons'[pos] = ev.finish_reason
                     ELSE /\ ~ts2.finished /\ ~sh2.finished /\ ~sh2.stop_triggered
                          /\ finish_reasons'[pos] = None
                          /\ num_finished_requests' = num_finished_requests]_vars

\* A terminal event whose own put triggered the stop string: the streamer was
\* not flushed.
C14_Witness ==
    \E i \in 1..Len(outputs) :
        /\ pc = "in_step"
        /\ RoutedPos(delta_output.request_id, num_requests) = i
        /\ delta_output.finish_reason = "length"
        /\ delta_output.delta_tokens # <<>>
        /\ num_events = 2
        /\ stop_handlers[i].stop_triggered
        /\ ~text_streamers[i].finished
        /\ num_finished_requests = 1

\* C15: the engine is called in this order: the callback is read, the batch
\* callback is installed, add_request is called once per request, step is
\* called, and last the callback read at the start is installed again; no
\* add_request comes before the installation or after a step, no step before
\* the last add_request, and nothing after the restoration.
C15_EngineCallOrder ==
    /\ \A k \in 1..Len(ffi_calls) :
        LET c == ffi_calls[k]
        IN  /\ k = 1 => c.op = "get_request_stream_callback"
            /\ k = 2 => (c.op = "set_request_stream_callback" /\ c.callback = BatchCallback)
            /\ (k > 2 /\ k <= num_requests + 2) => c.op = "add_request"
            /\ k > num_requests + 2 =>
                 \/ c.op = "step"
                 \/ /\ c.op = "set_request_stream_callback"
                    /\ c.callback = entry_callback
                    /\ k = Len(ffi_calls)
                    /\ pc = "returned"
    /\ (pc = "returned" /\ ffi_calls # <<>>) =>
          ffi_calls[Len(ffi_calls)].op = "set_request_stream_callback"
    /\ pc \in {"loop", "in_step"} => Len(ffi_calls) >= num_requests + 2

C15_Witness ==
    /\ pc = "returned"
    /\ num_requests = MaxRequests
    /\ NumSteps = 2
    /\ Len(ffi_calls) = num_requests + 5
    /\ ffi_calls[Len(ffi_calls)].callback = "user_callback"

\* The add_request calls made so far, in order.
AddRequestCalls == SelectSeq(ffi_calls, LAMBDA c : c.op = "add_request")

\* C16: add_request is called once per prompt; the i-th call (i = 0..N-1)
\* carries the id i, the i-th prompt and the i-th config, or the one config
\* that was passed for all prompts; no id is submitted twice and none outside
\* 0..N-1.
C16_AddRequestPerPrompt ==
    LET adds == AddRequestCalls
    IN  /\ Len(adds) <= num_requests
        /\ (pc \in {"loop", "in_step"} \/ (pc = "returned" /\ ffi_calls # <<>>)) =>
              Len(adds) = num_requests
        /\ \A j \in 1..Len(adds) :
              /\ ParseInt(adds[j].request_id) = [ok |-> TRUE, val |-> j - 1]
              /\ adds[j].inputs =
                    (IF prompts.elems[j] = "str" THEN "TextData" ELSE "TokenData")
              /\ adds[j].generation_config =
                    (IF config_arg.is_list THEN config_arg.cfgs[j] ELSE config_arg.cfgs[1])
        /\ \A j, k \in 1..Len(adds) :
              adds[j].request_id = adds[k].request_id => j = k
        /\ \A j \in 1..Len(adds) :
              ParseInt(adds[j].request_id).val \in 0..(num_requests - 1)

C16_Witness ==
    /\ pc = "returned"
    /\ num_requests = MaxRequests
    /\ Len(AddRequestCalls) = MaxRequests
    /\ config_arg.is_list
    /\ \E j \in 2..MaxRequests : config_arg.cfgs[j] # config_arg.cfgs[1]
    /\ prompts.elems[1] # prompts.elems[MaxRequests]

\* Request j (1-based position j) keeps its streamer, its handler and its
\* output over the step.
RequestUnchanged(j) ==
    /\ text_streamers'[j] = text_streamers[j]
    /\ stop_handlers'[j] = stop_handlers[j]
    /\ outputs'[j] = outputs[j]

\* C17: processing an event with request id i leaves the streamer, the
\* handler and the output of every request j # i, j in 0..N-1, unchanged.
C17_OtherRequestsUnchanged ==
    [][Delivered =>
         LET r == ParseInt(delta_output'.request_id)
         IN  \A j \in 1..num_requests :
                (~r.ok \/ r.val # j - 1) => RequestUnchanged(j)]_vars

\* The same for the request the code routes the event to: only the position
\* that lst[rid] reads may change.
FrameOfRoutedRequest ==
    [][Delivered =>
         \A j \in 1..num_requests :
            RoutedPos(delta_output'.request_id, num_requests) # j => RequestUnchanged(j)]_vars

\* C18: with calls of generate made one after another and inside one
\* another, each returning normally, the callback in the slot when a call
\* returns is the one that was there when that call started, and when the
\* outermost call returns it is the callback installed before the first call.
C18_NestedCallsRestoreCallback ==
    /\ pc = "returned" => callback_slot = entry_callback
    /\ (pc = "returned" /\ call_stack = <<>>) => callback_slot = installed_callback
    /\ \A d \in 1..Len(call_stack) :
          call_stack[d].entry_callback =
             (IF d = 1 THEN installed_callback ELSE ClosureOf(d - 2))

\* The third call returned inside the step of another call.
C18_Witness ==
    /\ pc = "returned"
    /\ Len(call_stack) = 1
    /\ num_calls = MaxCalls
    /\ ffi_calls # <<>>
    /\ installed_callback = "user_callback"
    /\ callback_slot = BatchCallback

====
